---- MODULE Spec2Model ----
(***************************************************************************)
(* Model of the BeyondChats article pipeline: the article store and the    *)
(* request handlers of src/controllers/articleController.ts, the batch     *)
(* scripts (scripts/updateArticles.ts, scripts/scrapeArticles.ts) and the  *)
(* LLM rewriter (services/llmService.ts).                                  *)
(*                                                                         *)
(* Every request runs in a worker p; its local variables are the fields of *)
(* loc[p], named as in the source.  One action is one stretch of handler   *)
(* code between two awaits.  Strings are sequences, so that the code's     *)
(* truthiness test `!updatedContent` is Len(updatedContent) = 0.           *)
(***************************************************************************)
EXTENDS Integers, Sequences, FiniteSets, TLC

VARIABLES store, env, workers, loc

vars == <<store, env, workers, loc>>

----------------------------------------------------------------------------
(* Bounds of the model *)

\* number of articles in the store when the requests start
MaxArticles == 2
\* number of requests issued in a run
MaxRequests == 2
\* number of distinct source URLs
MaxUrls == 2
\* number of articles one scrape returns
MaxScraped == 2

(* Program constants *)

\* findMany({ where: { isUpdated: false }, take: 5 })
Take == 5
\* searchGoogle(article.title, 2)
NumResults == 2
\* const maxAttempts = 5
maxAttempts == 5
\* setTimeout(resolve, 65000)
Cooldown == 65000
\* setTimeout(resolve, 2000) of the update script
ScriptDelay == 2000

Procs == {1, 2}

----------------------------------------------------------------------------
(* Values *)

\* an optional column of the store: null, or one value
Null == <<>>
Some(x) == <<x>>

\* the empty string, and the non-empty text a backend returns to worker p
EmptyText == <<>>
TextOf(p) == <<p>>

\* the result pages a search can return, in ranking order
ResultUrls == <<1, 2, 3>>

RECURSIVE SubSeqs(_)
\* all subsequences of s, order kept
SubSeqs(s) ==
    IF Len(s) = 0 THEN {<<>>}
    ELSE LET rest == SubSeqs(Tail(s))
         IN  rest \cup {<<Head(s)>> \o r : r \in rest}

\* Array.prototype.slice(0, n)
Slice(s, n) == SubSeq(s, 1, IF Len(s) < n THEN Len(s) ELSE n)

Range(s) == {s[k] : k \in 1..Len(s)}

----------------------------------------------------------------------------
(* The article store (Prisma model Article) *)

\* the row prisma.article.create inserts: isUpdated false, no updatedContent
NewArticle(id, url) ==
    [id |-> id, originalUrl |-> url, isUpdated |-> FALSE,
     updatedContent |-> Null, references |-> <<>>]

\* prisma.article.findUnique({ where: { id } })
FindById(s, id) == {a \in Range(s) : a.id = id}

\* prisma.article.findUnique({ where: { originalUrl } })
FindByUrl(s, url) == {a \in Range(s) : a.originalUrl = url}

RECURSIVE SelectSeq2(_, _)
\* the rows of s that satisfy isUpdated = false, in store order
SelectSeq2(s, k) ==
    IF k > Len(s) THEN <<>>
    ELSE (IF s[k].isUpdated = FALSE THEN <<s[k]>> ELSE <<>>) \o SelectSeq2(s, k + 1)

\* a selection that ignores the bound
FindManyUnbounded(s, take) == SelectSeq2(s, 1)

\* prisma.article.findMany({ where: { isUpdated: false }, take })
FindManyNotUpdated(s, take) == Slice(SelectSeq2(s, 1), take)

\* prisma.article.findMany({ where: { isUpdated: false } }) of the script
FindAllNotUpdated(s) == SelectSeq2(s, 1)

\* an update that writes the references only where none were stored yet
UpdateEnhancedKeepRefs(s, id, content, refs) ==
    [k \in 1..Len(s) |->
        IF s[k].id = id
        THEN [s[k] EXCEPT !.isUpdated = TRUE,
                          !.updatedContent = Some(content),
                          !.references = IF s[k].isUpdated THEN @ ELSE refs]
        ELSE s[k]]

\* prisma.article.update({ where: { id }, data: { isUpdated: true, updatedContent, references } })
UpdateEnhanced(s, id, content, refs) ==
    [k \in 1..Len(s) |->
        IF s[k].id = id
        THEN [s[k] EXCEPT !.isUpdated = TRUE,
                          !.updatedContent = Some(content),
                          !.references = refs]
        ELSE s[k]]

\* the store that n creates leave: n articles, none enhanced yet
CreatedStore(n) == [k \in 1..n |-> NewArticle(k, k)]

----------------------------------------------------------------------------
(* Worker-local state *)

\* no response sent yet; a sent response has status 200, 201, 404, 409 or 500
NoResponse == [status |-> 0, count |-> 0, articles |-> <<>>]

\* a mock backend: its first `limited` calls answer with the rate-limit
\* signal (HTTP 429), every later call answers `then`
NoBackend == [limited |-> 0, then |-> "none"]

\* no value returned or thrown yet
NoRet == [kind |-> "none", val |-> <<>>]

\* the locals of a service call that uses a browser: the function, the
\* position in it, the browser handle (null before launch), the value the
\* try block handed to return (or the exception it raised), the page text
\* and its normalisation, the locals of the loops (urls, k, results), the
\* href attributes of the index page's anchors and the links collected, the
\* text the page holds under each content selector and in its paragraphs
\* and the strategy the content was taken from, and
\* as history the browser sessions launched and the steps that failed
NoCall ==
    [fn |-> "none", pc |-> "none", url |-> 0, browser |-> Null, ret |-> NoRet,
     raw |-> <<>>, content |-> <<>>,
     urls |-> <<>>, k |-> 0, results |-> <<>>,
     hrefs |-> <<>>, articleLinks |-> <<>>,
     containers |-> <<>>, paragraphs |-> 0, from |-> <<>>,
     sessions |-> <<>>, faults |-> <<>>, outcomes |-> <<>>]

IdleLoc ==
    [pc |-> "idle", kind |-> "none", requests |-> 0,
     articles |-> <<>>, i |-> 0,
     searchResults |-> <<>>, referenceArticles |-> <<>>,
     updatedContent |-> EmptyText, references |-> <<>>,
     attempts |-> 0,
     successCount |-> 0, failureCount |-> 0, enhancedArticles |-> <<>>,
     id |-> 0, body |-> [isUpdated |-> <<>>, updatedContent |-> <<>>, references |-> <<>>],
     originalUrl |-> 0, savedCount |-> 0, skippedCount |-> 0, savedArticles |-> <<>>,
     response |-> NoResponse, exitCode |-> 0,
     error |-> "none", stage |-> "none",
     \* the service call (search, extraction, scrape) the request is in
     call |-> NoCall,
     \* the backend the current rewrite talks to
     backend |-> NoBackend, calls |-> 0,
     \* history of the request: the store when it started, the ids whose
     \* pipeline it started, the ids it wrote and the <<id, stage>> failures
     \* it caught; history of the current
     \* article: the stages it entered, the backend calls and cooldowns of
     \* its rewrite, and the milliseconds slept
     before |-> <<>>, attempted |-> <<>>, wrote |-> {}, failures |-> <<>>,
     log |-> <<>>, llm |-> <<>>, slept |-> 0]

\* the article the loop is at (the only one, for the single-article endpoint)
Cur(l) == l.articles[l.i]

\* the locals of a request that starts: everything but the request counter
FreshLoc(l, kind) ==
    [IdleLoc EXCEPT !.kind = kind, !.requests = l.requests + 1, !.before = store]

\* the block-scoped locals of one loop iteration, re-created per article
ResetArticle(l) ==
    [l EXCEPT !.searchResults = <<>>, !.referenceArticles = <<>>,
              !.updatedContent = EmptyText, !.references = <<>>,
              !.attempts = 0, !.error = "none", !.stage = "none",
              !.backend = NoBackend, !.calls = 0,
              !.log = <<>>, !.llm = <<>>, !.slept = 0]

\* errorHandler: an AppError carries its status, anything else is a 500
StatusOf(err) ==
    CASE err = "validation" -> 400
      [] err = "notfound"  -> 404
      [] err = "duplicate" -> 409
      [] OTHER             -> 500

\* next(error) of a controller: the error handler sends the error response
NextError(l, err) ==
    [l EXCEPT !.pc = "done", !.error = err,
              !.response = [status |-> StatusOf(err), count |-> 0, articles |-> <<>>]]

\* an exception raised in the per-article pipeline travels to the nearest catch
Throw(l, stage, err) ==
    [l EXCEPT !.pc = "catch", !.stage = stage, !.error = err]

\* a response that counts the selected articles instead of the successes
BatchRespondSelected(l) ==
    [l EXCEPT !.pc = "done",
              !.response = [status |-> 200, count |-> Len(l.articles),
                            articles |-> l.enhancedArticles]]

\* a batch that answers with an error when none of its articles succeeded
BatchRespondStrict(l) ==
    IF l.successCount = 0
    THEN [l EXCEPT !.pc = "done",
                   !.response = [status |-> 500, count |-> 0, articles |-> <<>>]]
    ELSE [l EXCEPT !.pc = "done",
                   !.response = [status |-> 200, count |-> l.successCount,
                                 articles |-> l.enhancedArticles]]

\* the end of the for loop of enhanceArticles: res.json with the counts
BatchRespond(l) ==
    [l EXCEPT !.pc = "done",
              !.response = [status |-> 200, count |-> l.successCount,
                            articles |-> l.enhancedArticles]]

\* the end of the for loop of the update script: the summary is logged
ScriptFinish(l) == [l EXCEPT !.pc = "done"]

\* for (const article of articles): the next iteration, or the code after the loop
Advance(l) ==
    IF l.i < Len(l.articles)
    THEN [ResetArticle(l) EXCEPT !.i = l.i + 1, !.pc = "search"]
    ELSE IF l.kind = "script" THEN ScriptFinish(l) ELSE BatchRespond(l)

\* `failureCount++; continue;` of the update script
ScriptSkip(l, stage) ==
    Advance([l EXCEPT !.failureCount = l.failureCount + 1,
                      !.failures = Append(l.failures, <<Cur(l).id, stage>>)])

----------------------------------------------------------------------------
(* The environment: search, extraction, LLM backends *)

\* number of rate-limited answers a mock backend gives before its final one
MaxLimited == 5

\* the backends a rewrite can meet
Backends ==
    {[limited |-> k, then |-> t] : k \in 0..MaxLimited, t \in {"ok", "empty", "error"}}
    \cup {[limited |-> 0, then |-> "429"]}

\* the backends whose answers the configuration e lets a rewrite see: none
\* without a key, one answer of the primary (which has no retry), any
\* sequence of answers of the secondary
BackendsFor(e) ==
    IF ~e.hasOpenAI /\ ~e.hasGemini THEN {NoBackend}
    ELSE IF e.hasOpenAI THEN {b \in Backends : b.limited = 0}
    ELSE Backends

\* the answer of backend b to its n-th call
Respond(b, n) == IF n <= b.limited THEN "429" ELSE b.then

\* searchGoogle(query, numResults): an exception, or the first numResults
\* of the results found on the page (none when the page timed out)
SearchOutcomes(numResults) ==
    {[threw |-> TRUE, results |-> <<>>]}
    \cup {[threw |-> FALSE, results |-> Slice(SubSeq(ResultUrls, 1, n), numResults)] :
            n \in 0..Len(ResultUrls)}

\* the ExtractedContent extractArticleContent returns for url: the url it
\* was called with and the text of the page
DocOf(url) == [url |-> url, content |-> TextOf(url)]

\* extractMultipleArticles(urls): the documents of the urls whose extraction
\* gave content, in the order of urls
ExtractOutcomes(urls) ==
    {[k \in 1..Len(s) |-> DocOf(s[k])] : s \in SubSeqs(urls)}

----------------------------------------------------------------------------
(* rewriteArticle *)

\* line 135: referenceArticles.map(ref => ref.url)
RefUrls(referenceArticles) ==
    [k \in 1..Len(referenceArticles) |-> referenceArticles[k].url]

\* a rewriteArticle that returns whatever the backend gave, empty or not
RewriteReturnUnchecked(l) ==
    [l EXCEPT !.references = RefUrls(l.referenceArticles), !.pc = "update"]

\* a rewriteArticle that takes the references from the text the model wrote
RewriteReturnCited(l) ==
    IF Len(l.updatedContent) = 0
    THEN Throw(l, "rewrite", "empty")
    ELSE [l EXCEPT !.references = l.updatedContent, !.pc = "update"]

\* lines 128-140: the empty-content check, then the result
RewriteReturn(l) ==
    IF Len(l.updatedContent) = 0
    THEN Throw(l, "rewrite", "empty")
    ELSE [l EXCEPT !.references = RefUrls(l.referenceArticles), !.pc = "update"]

\* lines 123-125: the check after the retry loop
AfterGemini(l) ==
    IF Len(l.updatedContent) = 0
    THEN Throw(l, "rewrite", "exhausted")
    ELSE RewriteReturn(l)

\* a retry loop that gives up one attempt early
GeminiLoopShort(l) ==
    IF l.attempts < maxAttempts - 1
    THEN [l EXCEPT !.pc = "gemini"]
    ELSE AfterGemini(l)

\* a retry loop that allows one attempt more
GeminiLoopLong(l) ==
    IF l.attempts <= maxAttempts
    THEN [l EXCEPT !.pc = "gemini"]
    ELSE AfterGemini(l)

\* line 107: while (attempts < maxAttempts)
GeminiLoop(l) ==
    IF l.attempts < maxAttempts
    THEN [l EXCEPT !.pc = "gemini"]
    ELSE AfterGemini(l)

\* a choice of backend that prefers the secondary when both are configured
SelectBackendGeminiFirst(l) ==
    IF ~env.hasOpenAI /\ ~env.hasGemini
    THEN Throw(l, "rewrite", "config")
    ELSE IF env.hasGemini
         THEN GeminiLoop([l EXCEPT !.attempts = 0])
         ELSE [l EXCEPT !.pc = "openai"]

\* lines 36-41 and 82/100: the configuration check and the choice of backend
SelectBackend(l) ==
    IF ~env.hasOpenAI /\ ~env.hasGemini
    THEN Throw(l, "rewrite", "config")
    ELSE IF env.hasOpenAI
         THEN [l EXCEPT !.pc = "openai"]
         ELSE GeminiLoop([l EXCEPT !.attempts = 0])

\* rewriteArticle is entered: the backend of this call is fixed here
Rewrite(p) ==
    /\ loc[p].pc = "rewrite"
    /\ \E b \in BackendsFor(env) :
         loc' = [loc EXCEPT ![p] =
                   SelectBackend([loc[p] EXCEPT !.backend = b,
                                               !.log = Append(@, "rewrite")])]
    /\ UNCHANGED <<store, env, workers>>

\* lines 84-99: openai.chat.completions.create, one call, no retry
OpenAI(p) ==
    /\ loc[p].pc = "openai"
    /\ LET l == [loc[p] EXCEPT !.calls = @ + 1, !.llm = Append(@, "openai")]
           r == Respond(l.backend, l.calls)
       IN  loc' = [loc EXCEPT ![p] =
                     CASE r = "ok"    -> RewriteReturn([l EXCEPT !.updatedContent = TextOf(p)])
                       [] r = "empty" -> RewriteReturn([l EXCEPT !.updatedContent = EmptyText])
                       [] OTHER       -> Throw(l, "rewrite", "backend")]
    /\ UNCHANGED <<store, env, workers>>

\* lines 108-120: one model.generateContent call of the retry loop
Gemini(p) ==
    /\ loc[p].pc = "gemini"
    /\ LET l == [loc[p] EXCEPT !.calls = @ + 1, !.llm = Append(@, "gemini")]
           r == Respond(l.backend, l.calls)
       IN  loc' = [loc EXCEPT ![p] =
                     CASE r = "ok"    -> AfterGemini([l EXCEPT !.updatedContent = TextOf(p)])
                       [] r = "empty" -> AfterGemini([l EXCEPT !.updatedContent = EmptyText])
                       [] r = "429"   -> [l EXCEPT !.attempts = @ + 1, !.pc = "cooldown"]
                       [] OTHER       -> Throw([l EXCEPT !.attempts = @ + 1], "rewrite", "backend")]
    /\ UNCHANGED <<store, env, workers>>

\* line 116: the 65 s sleep is over, the loop condition is evaluated again
CooldownOver(p) ==
    /\ loc[p].pc = "cooldown"
    /\ loc' = [loc EXCEPT ![p] =
                 GeminiLoop([loc[p] EXCEPT !.slept = @ + Cooldown,
                                          !.llm = Append(@, "wait")])]
    /\ UNCHANGED <<store, env, workers>>

----------------------------------------------------------------------------
(* The enhancement orchestrator: enhanceArticles, enhanceArticleById and   *)
(* the update script                                                       *)

RECURSIVE Requests(_)
\* the requests the workers of W have issued so far
Requests(W) ==
    IF W = {} THEN 0
    ELSE LET p == CHOOSE q \in W : TRUE
         IN  loc[p].requests + Requests(W \ {p})

\* a worker that runs no request takes the next one
CanStart(p) ==
    /\ p \in workers
    /\ loc[p].pc \in {"idle", "done"}
    /\ Requests(workers) < MaxRequests

\* the loop is entered with the selected articles
EnterLoop(l, selected) ==
    [l EXCEPT !.articles = selected, !.i = 1, !.pc = "search"]

\* enhanceArticles, lines 259-285: the selection, or the empty answer
EnhanceArticles(p) ==
    /\ CanStart(p)
    /\ \E dbOk \in BOOLEAN :
         LET l == FreshLoc(loc[p], "batch")
             articles == FindManyNotUpdated(store, Take)
         IN  loc' = [loc EXCEPT ![p] =
                       IF ~dbOk THEN NextError(l, "store")
                       ELSE IF Len(articles) = 0
                            THEN [l EXCEPT !.pc = "done",
                                           !.response = [status |-> 200, count |-> 0,
                                                         articles |-> <<>>]]
                            ELSE EnterLoop(l, articles)]
    /\ UNCHANGED <<store, env, workers>>

\* enhanceArticleById, lines 350-364: the lookup, or the 404
EnhanceArticleById(p) ==
    /\ CanStart(p)
    /\ \E id \in 1..(Len(store) + 1), dbOk \in BOOLEAN :
         LET l == FreshLoc(loc[p], "byId")
             article == FindById(store, id)
         IN  loc' = [loc EXCEPT ![p] =
                       IF ~dbOk THEN NextError(l, "store")
                       ELSE IF article = {}
                            THEN NextError(l, "notfound")
                            ELSE EnterLoop(l, <<CHOOSE a \in article : TRUE>>)]
    /\ UNCHANGED <<store, env, workers>>

\* update script main, lines 11-28: the selection without a bound
UpdateScript(p) ==
    /\ CanStart(p)
    /\ \E dbOk \in BOOLEAN :
         LET l == FreshLoc(loc[p], "script")
             articles == FindAllNotUpdated(store)
         IN  loc' = [loc EXCEPT ![p] =
                       IF ~dbOk THEN [l EXCEPT !.pc = "done", !.error = "store",
                                               !.exitCode = 1]
                       ELSE IF Len(articles) = 0
                            THEN [l EXCEPT !.pc = "done"]
                            ELSE EnterLoop(l, articles)]
    /\ UNCHANGED <<store, env, workers>>

\* an orchestrator that treats an empty search result as a failure everywhere
AfterSearchStrict(l, results) ==
    LET m == [l EXCEPT !.searchResults = results]
    IN  IF Len(results) > 0
        THEN [m EXCEPT !.pc = "extract"]
        ELSE Throw(m, "search", "noresults")

\* after searchGoogle returned: endpoints go on without references when the
\* result is empty (lines 293-300, 369-376), the script gives the article up
\* (script lines 38-42)
AfterSearch(l, results) ==
    LET m == [l EXCEPT !.searchResults = results]
    IN  IF Len(results) > 0
        THEN [m EXCEPT !.pc = "extract"]
        ELSE IF l.kind = "script"
             THEN ScriptSkip(m, "search")
             ELSE [m EXCEPT !.referenceArticles = <<>>, !.pc = "rewrite"]

\* step 1: await searchGoogle(article.title, 2)
Search(p) ==
    /\ loc[p].pc = "search"
    /\ \E o \in SearchOutcomes(NumResults) :
         LET l == [loc[p] EXCEPT !.log = Append(@, "search"),
                                 !.attempted = Append(@, Cur(loc[p]).id)]
         IN  loc' = [loc EXCEPT ![p] =
                       IF o.threw THEN Throw(l, "search", "search")
                       ELSE AfterSearch(l, o.results)]
    /\ UNCHANGED <<store, env, workers>>

\* an orchestrator that persists right after the extraction
AfterExtractPersist(l, extracted) ==
    [l EXCEPT !.referenceArticles = extracted, !.pc = "update"]

\* after extractMultipleArticles returned: the script gives the article up
\* when nothing was extracted (script lines 50-54)
AfterExtract(l, extracted) ==
    LET m == [l EXCEPT !.referenceArticles = extracted]
    IN  IF l.kind = "script" /\ Len(extracted) = 0
        THEN ScriptSkip(m, "extract")
        ELSE [m EXCEPT !.pc = "rewrite"]

\* step 2: await extractMultipleArticles(referenceUrls)
Extract(p) ==
    /\ loc[p].pc = "extract"
    /\ \E extracted \in ExtractOutcomes(loc[p].searchResults) :
         loc' = [loc EXCEPT ![p] =
                   AfterExtract([loc[p] EXCEPT !.log = Append(@, "extract")], extracted)]
    /\ UNCHANGED <<store, env, workers>>

\* after prisma.article.update returned the updated row
AfterUpdate(l, updated) ==
    CASE l.kind = "batch" ->
           Advance([l EXCEPT !.enhancedArticles = Append(@, updated),
                             !.successCount = @ + 1])
      [] l.kind = "script" ->
           [l EXCEPT !.successCount = @ + 1, !.pc = "delay"]
      [] OTHER ->
           [l EXCEPT !.pc = "done",
                     !.response = [status |-> 200, count |-> 1, articles |-> <<updated>>]]

\* step 4: await prisma.article.update(...), which can fail
Update(p) ==
    /\ loc[p].pc = "update"
    /\ \E dbOk \in BOOLEAN :
         LET l  == [loc[p] EXCEPT !.log = Append(@, "update")]
             id == Cur(l).id
             s2 == UpdateEnhanced(store, id, l.updatedContent, l.references)
         IN  IF dbOk
             THEN /\ store' = s2
                  /\ loc' = [loc EXCEPT ![p] =
                               AfterUpdate([l EXCEPT !.wrote = @ \cup {id}],
                                           CHOOSE a \in FindById(s2, id) : TRUE)]
             ELSE /\ store' = store
                  /\ loc' = [loc EXCEPT ![p] = Throw(l, "update", "store")]
    /\ UNCHANGED <<env, workers>>

\* the 2 s pause of the update script after a success
Delay(p) ==
    /\ loc[p].pc = "delay"
    /\ loc' = [loc EXCEPT ![p] = Advance([loc[p] EXCEPT !.slept = @ + ScriptDelay])]
    /\ UNCHANGED <<store, env, workers>>

\* a loop without a per-article catch: the exception ends the request
CatchBlockAbort(l) == NextError(l, l.error)

\* a single-article endpoint that answers 200 whatever was thrown
CatchBlockSwallow(l) ==
    IF l.kind \in {"batch", "script"}
    THEN Advance([l EXCEPT !.failureCount = @ + 1,
                           !.failures = Append(@, <<Cur(l).id, l.stage>>)])
    ELSE [l EXCEPT !.pc = "done",
                   !.response = [status |-> 200, count |-> 0, articles |-> <<>>]]

\* the catch block an exception of the pipeline lands in: the per-article
\* catch of the loops (lines 322-325, script lines 81-84), or the handler's
\* catch of the single-article endpoint (lines 401-403)
CatchBlock(l) ==
    IF l.kind \in {"batch", "script"}
    THEN Advance([l EXCEPT !.failureCount = @ + 1,
                           !.failures = Append(@, <<Cur(l).id, l.stage>>)])
    ELSE NextError(l, l.error)

Catch(p) ==
    /\ loc[p].pc = "catch"
    /\ loc' = [loc EXCEPT ![p] = CatchBlock(loc[p])]
    /\ UNCHANGED <<store, env, workers>>

----------------------------------------------------------------------------
(* Enhancement requests, one after the other, by one worker *)

Envs == [hasOpenAI : BOOLEAN, hasGemini : BOOLEAN]

\* number of articles in the store when the secondary backend, the one
\* with the retry loop, is the only one configured
MaxRetried == 1

Init ==
    /\ env \in Envs
    /\ \E n \in 0..MaxArticles :
         /\ (~env.hasOpenAI /\ env.hasGemini) => n <= MaxRetried
         /\ store = CreatedStore(n)
    /\ workers = {1}
    /\ loc = [p \in Procs |-> IdleLoc]

Next ==
    \/ \E p \in workers : EnhanceArticles(p)
    \/ \E p \in workers : EnhanceArticleById(p)
    \/ \E p \in workers : UpdateScript(p)
    \/ \E p \in workers : Search(p)
    \/ \E p \in workers : Extract(p)
    \/ \E p \in workers : Rewrite(p)
    \/ \E p \in workers : OpenAI(p)
    \/ \E p \in workers : Gemini(p)
    \/ \E p \in workers : CooldownOver(p)
    \/ \E p \in workers : Update(p)
    \/ \E p \in workers : Delay(p)
    \/ \E p \in workers : Catch(p)

Spec == Init /\ [][Next]_vars

----------------------------------------------------------------------------
(* The update endpoint (PUT /:id) next to single-article enhancement *)

\* the bodies a PUT can carry: every field present or absent; an absent or
\* empty updatedContent is the empty text
Bodies ==
    [isUpdated : {Null, Some(TRUE), Some(FALSE)},
     updatedContent : {EmptyText, TextOf(0)},
     references : {Null, Some(<<>>), Some(<<1>>)}]

\* lines 136-144: the conditional spreads of the update's data
ApplyBody(a, body) ==
    [a EXCEPT !.isUpdated = IF body.isUpdated # Null THEN body.isUpdated[1] ELSE @,
              !.updatedContent = IF Len(body.updatedContent) > 0
                                 THEN Some(body.updatedContent) ELSE @,
              !.references = IF body.references # Null THEN body.references[1] ELSE @]

\* prisma.article.update({ where: { id }, data }) of updateArticle
UpdateFields(s, id, body) ==
    [k \in 1..Len(s) |-> IF s[k].id = id THEN ApplyBody(s[k], body) ELSE s[k]]

\* updateArticle, lines 122-132: the body is read, the article looked up
UpdateArticle(p) ==
    /\ CanStart(p)
    /\ \E id \in 1..(Len(store) + 1), body \in Bodies :
         LET l == [FreshLoc(loc[p], "put") EXCEPT !.id = id, !.body = body]
         IN  loc' = [loc EXCEPT ![p] =
                       IF FindById(store, id) = {}
                       THEN NextError(l, "notfound")
                       ELSE [l EXCEPT !.pc = "put_update"]]
    /\ UNCHANGED <<store, env, workers>>

\* updateArticle, lines 134-152: the update and the answer
UpdateArticleWrite(p) ==
    /\ loc[p].pc = "put_update"
    /\ LET l  == loc[p]
           s2 == UpdateFields(store, l.id, l.body)
       IN  /\ store' = s2
           /\ loc' = [loc EXCEPT ![p] =
                        [l EXCEPT !.pc = "done", !.wrote = @ \cup {l.id},
                                  !.response = [status |-> 200, count |-> 1,
                                                articles |-> <<CHOOSE a \in FindById(s2, l.id) : TRUE>>]]]
    /\ UNCHANGED <<env, workers>>

\* the primary backend is configured, so every rewrite goes to it
InitAdmin ==
    /\ \E n \in 0..MaxArticles : store = CreatedStore(n)
    /\ env \in {e \in Envs : e.hasOpenAI}
    /\ workers = {1}
    /\ loc = [p \in Procs |-> IdleLoc]

NextAdmin ==
    \/ \E p \in workers : UpdateArticle(p)
    \/ \E p \in workers : UpdateArticleWrite(p)
    \/ \E p \in workers : EnhanceArticleById(p)
    \/ \E p \in workers : Search(p)
    \/ \E p \in workers : Extract(p)
    \/ \E p \in workers : Rewrite(p)
    \/ \E p \in workers : OpenAI(p)
    \/ \E p \in workers : Update(p)
    \/ \E p \in workers : Catch(p)

SpecAdmin == InitAdmin /\ [][NextAdmin]_vars

----------------------------------------------------------------------------
(* One batch request on a store that holds more articles than a batch takes *)

\* number of articles in the store when the batch starts
MaxStored == 6

\* a store of n articles of which the first u have been enhanced before
EnhancedStore(n, u) ==
    [k \in 1..n |->
        IF k <= u
        THEN [NewArticle(k, k) EXCEPT !.isUpdated = TRUE,
                                      !.updatedContent = Some(TextOf(0))]
        ELSE NewArticle(k, k)]

\* the last request of a run is about to be issued; the primary backend is
\* configured
InitBatch ==
    /\ \E n \in 0..MaxStored, u \in 0..1 : u <= n /\ store = EnhancedStore(n, u)
    /\ env = [hasOpenAI |-> TRUE, hasGemini |-> FALSE]
    /\ workers = {1}
    /\ loc = [p \in Procs |-> [IdleLoc EXCEPT !.requests = MaxRequests - 1]]

NextBatch ==
    \/ \E p \in workers : EnhanceArticles(p)
    \/ \E p \in workers : Search(p)
    \/ \E p \in workers : Extract(p)
    \/ \E p \in workers : Rewrite(p)
    \/ \E p \in workers : OpenAI(p)
    \/ \E p \in workers : Update(p)
    \/ \E p \in workers : Catch(p)

SpecBatch == InitBatch /\ [][NextBatch]_vars

----------------------------------------------------------------------------
(* Enhancement requests that overlap: the server runs two handlers, each   *)
(* between two awaits                                                      *)

\* one article, not yet enhanced, is in the store; no request has started
InitRace ==
    /\ store = CreatedStore(1)
    /\ env = [hasOpenAI |-> TRUE, hasGemini |-> FALSE]
    /\ workers = Procs
    /\ loc = [p \in Procs |-> IdleLoc]

NextRace ==
    \/ \E p \in workers : EnhanceArticles(p)
    \/ \E p \in workers : EnhanceArticleById(p)
    \/ \E p \in workers : Search(p)
    \/ \E p \in workers : Extract(p)
    \/ \E p \in workers : Rewrite(p)
    \/ \E p \in workers : OpenAI(p)
    \/ \E p \in workers : Update(p)
    \/ \E p \in workers : Catch(p)

SpecRace == InitRace /\ [][NextRace]_vars

----------------------------------------------------------------------------
(* The batch endpoint invoked again and again.  env.poison holds the ids   *)
(* of the articles whose search throws on every attempt; for the other     *)
(* articles the search gives its results, the extraction a document for    *)
(* each, the backend a text, and the store answers every call.             *)

\* the outcome of the step worker p takes is the one its article is bound to
Fated(p) ==
    LET l == loc[p]
        m == loc'[p]
    IN  IF l.pc \in {"idle", "done"} THEN m.error # "store"
        ELSE IF Cur(l).id \in env.poison
             THEN l.pc = "search" => m.pc = "catch"
             ELSE /\ m.pc # "catch"
                  /\ l.pc = "search" => Len(m.searchResults) = NumResults
                  /\ l.pc = "extract" => Len(m.referenceArticles) = NumResults
                  /\ l.pc = "rewrite" => m.backend.then = "ok"

\* the client has the answer of a batch and sends the next request
Reinvoke(p) ==
    /\ p \in workers
    /\ loc[p].pc = "done"
    /\ loc' = [loc EXCEPT ![p] = IdleLoc]
    /\ UNCHANGED <<store, env, workers>>

InitLive ==
    /\ \E n \in 0..MaxStored : \E poison \in SUBSET (1..n) :
         /\ store = CreatedStore(n)
         /\ env = [hasOpenAI |-> TRUE, hasGemini |-> FALSE, poison |-> poison]
    /\ workers = {1}
    /\ loc = [p \in Procs |-> IdleLoc]

NextLive ==
    \/ \E p \in workers : EnhanceArticles(p) /\ Fated(p)
    \/ \E p \in workers : Search(p) /\ Fated(p)
    \/ \E p \in workers : Extract(p) /\ Fated(p)
    \/ \E p \in workers : Rewrite(p) /\ Fated(p)
    \/ \E p \in workers : OpenAI(p) /\ Fated(p)
    \/ \E p \in workers : Update(p) /\ Fated(p)
    \/ \E p \in workers : Catch(p)
    \/ \E p \in workers : Reinvoke(p)

\* the server runs every handler on; the client keeps on sending requests
SpecLive == InitLive /\ [][NextLive]_vars /\ WF_vars(NextLive)

----------------------------------------------------------------------------
(* Text and its normalisation (cleanContent of contentExtractor.ts)        *)
(* A text is a sequence of runs [c, n]: n >= 1 characters of class c,      *)
(* "x" a visible character, " " a blank, "\n" a line break (both match     *)
(* \s), "c" a control character that is not whitespace.                    *)

\* number of runs of a page text
MaxRuns == 2

\* if (!content || content.length < 100)
MinContent == 100

RunLengths == {1, MinContent - 2, MinContent - 1, MinContent}

Runs == [c : {"x", " ", "\n", "c"}, n : RunLengths]

Texts == UNION {[1..m -> Runs] : m \in 0..MaxRuns}

IsSpace(r) == r.c \in {" ", "\n"}

RECURSIVE TextLen(_)
\* String.prototype.length
TextLen(t) == IF t = <<>> THEN 0 ELSE Head(t).n + TextLen(Tail(t))

RECURSIVE Canon(_)
\* adjacent runs of one class are one run
Canon(t) ==
    IF Len(t) < 2 THEN t
    ELSE IF t[1].c = t[2].c
         THEN Canon(<<[c |-> t[1].c, n |-> t[1].n + t[2].n]>> \o SubSeq(t, 3, Len(t)))
         ELSE <<t[1]>> \o Canon(Tail(t))

RECURSIVE CollapseWhitespace(_)
\* .replace(/\s+/g, ' '): every maximal stretch of whitespace becomes one blank
CollapseWhitespace(t) ==
    IF t = <<>> THEN <<>>
    ELSE IF IsSpace(Head(t))
         THEN IF Len(t) >= 2 /\ IsSpace(t[2])
              THEN CollapseWhitespace(Tail(t))
              ELSE <<[c |-> " ", n |-> 1]>> \o CollapseWhitespace(Tail(t))
         ELSE <<Head(t)>> \o CollapseWhitespace(Tail(t))

\* .replace(/\n{3,}/g, '\n\n')
CollapseNewlines(t) ==
    LET u == Canon(t)
    IN  [k \in 1..Len(u) |-> IF u[k].c = "\n" /\ u[k].n >= 3
                             THEN [c |-> "\n", n |-> 2] ELSE u[k]]

\* .replace(/[\u0000-\u001F\u007F-\u009F]/g, ''): line breaks are in the range
StripControl(t) == Canon(SelectSeq(t, LAMBDA r : r.c \notin {"c", "\n"}))

RECURSIVE TrimStart(_)
TrimStart(t) == IF t # <<>> /\ IsSpace(Head(t)) THEN TrimStart(Tail(t)) ELSE t

RECURSIVE TrimEnd(_)
TrimEnd(t) ==
    IF t # <<>> /\ IsSpace(t[Len(t)]) THEN TrimEnd(SubSeq(t, 1, Len(t) - 1)) ELSE t

\* .trim()
Trim(t) == TrimEnd(TrimStart(t))

\* cleanContent, lines 129-139
cleanContent(t) == Trim(StripControl(CollapseNewlines(CollapseWhitespace(t))))

\* a threshold applied to the text as extracted, before it is normalised
ExtractResultRaw(url, raw) ==
    IF TextLen(raw) < MinContent
    THEN [kind |-> "null", val |-> <<>>]
    ELSE [kind |-> "value", val |-> [url |-> url, content |-> cleanContent(raw)]]

\* lines 100-114: normalise, reject a short text, or return the content
ExtractResult(url, raw) ==
    LET content == cleanContent(raw)
    IN  IF TextLen(content) < MinContent
        THEN [kind |-> "null", val |-> <<>>]
        ELSE [kind |-> "value", val |-> [url |-> url, content |-> content]]

\* extractArticleContent, lines 36-114: the page's HTML is parsed, the text
\* of the content strategies normalised and the result handed to return
ExtractContent(p) ==
    /\ loc[p].pc = "call"
    /\ loc[p].call.fn = "extractArticleContent"
    /\ loc[p].call.pc = "parse"
    /\ \E ok \in BOOLEAN :
         LET c == loc[p].call
         IN  loc' = [loc EXCEPT ![p].call =
                       IF ok
                       THEN [c EXCEPT !.content = cleanContent(c.raw),
                                      !.ret = ExtractResult(c.url, c.raw),
                                      !.pc = "finally"]
                       \* lines 116-118: logged, return null
                       ELSE [c EXCEPT !.faults = Append(@, "parse"),
                                      !.ret = [kind |-> "null", val |-> <<>>],
                                      !.pc = "finally"]]
    /\ UNCHANGED <<store, env, workers>>

\* extractArticleContent has read the HTML of a page, whatever its text
InitText ==
    /\ store = <<>>
    /\ env = [hasOpenAI |-> FALSE, hasGemini |-> FALSE]
    /\ workers = {1}
    /\ \E raw \in Texts, url \in 1..Len(ResultUrls) :
         loc = [p \in Procs |->
                  IF p = 1
                  THEN [IdleLoc EXCEPT !.pc = "call", !.kind = "extract",
                          !.call = [NoCall EXCEPT !.fn = "extractArticleContent",
                                                  !.pc = "parse", !.url = url,
                                                  !.raw = raw]]
                  ELSE IdleLoc]

NextText == \E p \in workers : ExtractContent(p)

SpecText == InitText /\ [][NextText]_vars

----------------------------------------------------------------------------
(* cleanContent on every short string, character by character *)

\* number of characters of a text handed to cleanContent
MaxChars == 5

\* one character of each class
CleanChars == [c : {"x", " ", "\n", "c"}, n : {1}]

CleanTexts == UNION {[1..m -> CleanChars] : m \in 0..MaxChars}

\* line 101: content = cleanContent(content)
CleanContent(p) ==
    /\ loc[p].pc = "call" /\ loc[p].call.pc = "clean"
    /\ loc' = [loc EXCEPT ![p].call.content = cleanContent(loc[p].call.raw),
                          ![p].call.pc = "cleaned"]
    /\ UNCHANGED <<store, env, workers>>

\* the content strategies have collected a text
InitClean ==
    /\ store = <<>>
    /\ env = [hasOpenAI |-> FALSE, hasGemini |-> FALSE]
    /\ workers = {1}
    /\ \E raw \in CleanTexts :
         loc = [p \in Procs |->
                  IF p = 1
                  THEN [IdleLoc EXCEPT !.pc = "call", !.kind = "extract",
                          !.call = [NoCall EXCEPT !.fn = "extractArticleContent",
                                                  !.pc = "clean", !.raw = raw]]
                  ELSE IdleLoc]

NextClean == \E p \in workers : CleanContent(p)

SpecClean == InitClean /\ [][NextClean]_vars

----------------------------------------------------------------------------
(* Ingestion: createArticle, scrapeArticles and the scrape script *)

Urls == 1..MaxUrls

\* every worker issues one ingestion request
CanIngest(p) == p \in workers /\ loc[p].pc = "idle"

\* the lists scrapeBeyondChatsArticles can return: the same page can be
\* reached through two links, so a URL can occur twice
ScrapedLists == UNION {[1..n -> Urls] : n \in 0..MaxScraped}

\* the store accepts every insert, duplicate or not
UniqueViolationNever(s, url) == FALSE

\* originalUrl is a unique key of Article: an insert of a URL that a row
\* already has fails
UniqueViolation(s, url) == FindByUrl(s, url) # {}

\* prisma.article.create({ data }): the store with the new row
Create(s, url) == Append(s, NewArticle(Len(s) + 1, url))

\* the existence check always lets the insert happen
ShouldCreateAlways(existing) == TRUE

\* if (!existing) of the persist loops
ShouldCreate(existing) == existing = {}

\* createArticle, lines 75-87: validation, then the existence check is issued
CreateArticle(p) ==
    /\ CanIngest(p)
    /\ \E url \in Urls, valid \in BOOLEAN :
         LET l == [FreshLoc(loc[p], "create") EXCEPT !.originalUrl = url]
         IN  loc' = [loc EXCEPT ![p] =
                       IF ~valid THEN NextError(l, "validation")
                       ELSE [l EXCEPT !.pc = "create_find"]]
    /\ UNCHANGED <<store, env, workers>>

\* lines 85-91: findUnique answered; a row with the URL is a 409
CreateFind(p) ==
    /\ loc[p].pc = "create_find"
    /\ LET l == loc[p]
           existing == FindByUrl(store, l.originalUrl)
       IN  loc' = [loc EXCEPT ![p] =
                     IF existing # {} THEN NextError(l, "duplicate")
                     ELSE [l EXCEPT !.pc = "create_insert"]]
    /\ UNCHANGED <<store, env, workers>>

\* lines 93-108: create answered, with the row or with the unique-key error
CreateInsert(p) ==
    /\ loc[p].pc = "create_insert"
    /\ LET l == loc[p]
       IN  IF UniqueViolation(store, l.originalUrl)
           THEN /\ store' = store
                /\ loc' = [loc EXCEPT ![p] = NextError(l, "unique")]
           ELSE /\ store' = Create(store, l.originalUrl)
                /\ loc' = [loc EXCEPT ![p] =
                             [l EXCEPT !.pc = "done", !.wrote = @ \cup {Len(store) + 1},
                                       !.response = [status |-> 201, count |-> 1,
                                                     articles |-> <<store'[Len(store')]>>]]]
    /\ UNCHANGED <<env, workers>>

\* the code after the persist loop: res.json of the endpoint (lines 237-244),
\* the summary of the script (script lines 163-167)
PersistEnd(l) ==
    IF l.kind = "scrape"
    THEN [l EXCEPT !.pc = "done",
                   !.response = [status |-> 200, count |-> l.savedCount,
                                 articles |-> l.savedArticles]]
    ELSE [l EXCEPT !.pc = "done"]

\* for (const article of articles) of the persist loops
PersistAdvance(l) ==
    IF l.i < Len(l.articles)
    THEN [l EXCEPT !.i = l.i + 1, !.pc = "scrape_find"]
    ELSE PersistEnd(l)

\* scrapeArticles, lines 198-214, and the scrape script, lines 113-129: the
\* scraper ran; its exception ends the request, an empty list too
Scraped(l, threw, articles) ==
    IF threw
    THEN IF l.kind = "scrape" THEN NextError(l, "scrape")
         ELSE [l EXCEPT !.pc = "done", !.error = "scrape", !.exitCode = 1]
    ELSE IF Len(articles) = 0
         THEN IF l.kind = "scrape"
              THEN [l EXCEPT !.pc = "done",
                             !.response = [status |-> 200, count |-> 0, articles |-> <<>>]]
              ELSE [l EXCEPT !.pc = "done"]
         ELSE [l EXCEPT !.articles = articles, !.i = 1, !.pc = "scrape_find"]

ScrapeArticles(p) ==
    /\ CanIngest(p)
    /\ \E threw \in BOOLEAN, urls \in ScrapedLists :
         /\ threw => urls = <<>>
         /\ loc' = [loc EXCEPT ![p] =
                      Scraped(FreshLoc(loc[p], "scrape"), threw,
                              [k \in 1..Len(urls) |-> [originalUrl |-> urls[k]]])]
    /\ UNCHANGED <<store, env, workers>>

ScrapeScript(p) ==
    /\ CanIngest(p)
    /\ \E threw \in BOOLEAN, urls \in ScrapedLists :
         /\ threw => urls = <<>>
         /\ loc' = [loc EXCEPT ![p] =
                      Scraped(FreshLoc(loc[p], "scrapeScript"), threw,
                              [k \in 1..Len(urls) |-> [originalUrl |-> urls[k]]])]
    /\ UNCHANGED <<store, env, workers>>

\* lines 217-222, script lines 133-142: findUnique answered; an article whose
\* URL has a row is skipped
ScrapeFind(p) ==
    /\ loc[p].pc = "scrape_find"
    /\ LET l == loc[p]
           existing == FindByUrl(store, Cur(l).originalUrl)
       IN  loc' = [loc EXCEPT ![p] =
                     IF ShouldCreate(existing)
                     THEN [l EXCEPT !.pc = "scrape_insert"]
                     ELSE PersistAdvance(
                            IF l.kind = "scrapeScript"
                            THEN [l EXCEPT !.skippedCount = @ + 1]
                            ELSE l)]
    /\ UNCHANGED <<store, env, workers>>

\* lines 223-234, script lines 144-160: create answered; the endpoint has no
\* catch in the loop, the script logs the error and goes on
ScrapeInsert(p) ==
    /\ loc[p].pc = "scrape_insert"
    /\ LET l == loc[p]
           url == Cur(l).originalUrl
       IN  IF UniqueViolation(store, url)
           THEN /\ store' = store
                /\ loc' = [loc EXCEPT ![p] =
                             IF l.kind = "scrape" THEN NextError(l, "unique")
                             ELSE PersistAdvance([l EXCEPT !.failures =
                                                    Append(@, <<url, "create">>)])]
           ELSE /\ store' = Create(store, url)
                /\ loc' = [loc EXCEPT ![p] =
                             PersistAdvance(
                               [l EXCEPT !.savedCount = @ + 1,
                                         !.wrote = @ \cup {Len(store) + 1},
                                         !.savedArticles =
                                            IF l.kind = "scrape"
                                            THEN Append(@, store'[Len(store')])
                                            ELSE @])]
    /\ UNCHANGED <<env, workers>>

(* Ingestion requests of two workers, interleaved at their store calls *)

InitIngest ==
    /\ \E n \in 0..MaxArticles : store = CreatedStore(n)
    /\ env = [hasOpenAI |-> FALSE, hasGemini |-> FALSE]
    /\ workers = {1, 2}
    /\ loc = [p \in Procs |-> IdleLoc]

NextIngest ==
    \/ \E p \in workers : CreateArticle(p)
    \/ \E p \in workers : CreateFind(p)
    \/ \E p \in workers : CreateInsert(p)
    \/ \E p \in workers : ScrapeArticles(p)
    \/ \E p \in workers : ScrapeScript(p)
    \/ \E p \in workers : ScrapeFind(p)
    \/ \E p \in workers : ScrapeInsert(p)

SpecIngest == InitIngest /\ [][NextIngest]_vars

----------------------------------------------------------------------------
(* Properties of the enhancement orchestrator and of rewriteArticle *)

Ids(arts) == [k \in 1..Len(arts) |-> arts[k].id]

Row(s, id) == CHOOSE a \in FindById(s, id) : TRUE

IsPrefix(a, b) == Len(a) <= Len(b) /\ SubSeq(b, 1, Len(a)) = a

GeminiOnly == ~env.hasOpenAI /\ env.hasGemini

\* k rate-limited calls, each followed by a cooldown, then one more call
RetryPattern(k) == [j \in 1..(2 * k + 1) |-> IF j % 2 = 1 THEN "gemini" ELSE "wait"]

\* rewriteArticle has returned (the update is next) or has thrown
RewriteEnded(l) == l.pc = "update" \/ (l.pc = "catch" /\ l.stage = "rewrite")

\* C1: in a batch the selected articles are attempted once each, in order,
\* whatever stage of an earlier article threw; while the loop runs the two
\* counters account for the articles already left behind, and when the batch
\* has answered, every selected article was attempted and
\* successCount + failureCount is the number of selected articles.
C1_BatchIsolation ==
    \A p \in workers :
        LET l == loc[p]
        IN  l.kind = "batch" =>
              /\ IsPrefix(l.attempted, Ids(l.articles))
              /\ Len(l.failures) = l.failureCount
              /\ l.pc # "done" =>
                   /\ l.successCount + l.failureCount = l.i - 1
                   /\ Len(l.attempted) \in {l.i - 1, l.i}
              /\ l.pc = "done" =>
                   /\ l.attempted = Ids(l.articles)
                   /\ l.successCount + l.failureCount = Len(l.articles)

\* a batch of two answered: the first article failed, the second was enhanced
C1_Witness ==
    \E p \in workers :
        LET l == loc[p]
        IN  /\ l.kind = "batch" /\ l.pc = "done"
            /\ Len(l.articles) = 2
            /\ l.failureCount = 1 /\ l.successCount = 1
            /\ l.failures[1][1] = l.articles[1].id

C3_UpdatedHasContent ==
    /\ \A k \in 1..Len(store) :
         store[k].isUpdated =>
           /\ store[k].updatedContent # Null
           /\ Len(store[k].updatedContent[1]) > 0
    /\ \A p \in workers : loc[p].pc = "update" => Len(loc[p].updatedContent) > 0

\* an article is enhanced, and the run is now at an article whose backend
\* returned empty text
C3_Witness ==
    /\ \E k \in 1..Len(store) : store[k].isUpdated
    /\ \E p \in workers : loc[p].pc = "catch" /\ loc[p].error \in {"empty", "exhausted"}
                           /\ loc[p].backend.then = "empty"

\* C4: in the batch and single-article endpoints, a search that returns no
\* result is followed by the rewrite, with no extraction and no reference; an
\* extraction that yields nothing is followed by the rewrite too; and when the
\* rewrite had no reference and the store update succeeds, the article is
\* stored with isUpdated = true and references = [] and counts as a success.
C4_DegradedMode ==
    [][\A p \in workers :
         LET l == loc[p]
             m == loc'[p]
         IN  l.kind \in {"batch", "byId"} =>
               /\ (l.pc = "search" /\ m # l /\ m.error # "search"
                     /\ m.searchResults = <<>>) =>
                    /\ m.pc = "rewrite"
                    /\ m.referenceArticles = <<>>
                    /\ m.log = <<"search">>
               /\ (l.pc = "extract" /\ m # l /\ m.referenceArticles = <<>>) =>
                    m.pc = "rewrite"
               /\ (l.pc = "rewrite" /\ l.referenceArticles = <<>> /\ m.pc = "update") =>
                    m.references = <<>>
               /\ (l.pc = "update" /\ l.referenceArticles = <<>> /\ store' # store) =>
                    /\ Row(store', Cur(l).id).isUpdated
                    /\ Row(store', Cur(l).id).references = <<>>
                    /\ IF l.kind = "batch"
                       THEN /\ m.successCount = l.successCount + 1
                            /\ m.failureCount = l.failureCount
                       ELSE m.response.status = 200
    ]_vars

\* the single-article endpoint answered 200 for an article whose search gave
\* nothing: no extraction ran and the row has no references
C4_Witness ==
    \E p \in workers :
        LET l == loc[p]
        IN  /\ l.kind = "byId" /\ l.pc = "done" /\ l.response.status = 200
            /\ l.searchResults = <<>>
            /\ l.log = <<"search", "rewrite", "update">>
            /\ Row(store, Cur(l).id).isUpdated
            /\ Row(store, Cur(l).id).references = <<>>

\* C5: with only the secondary backend configured and a backend that answers
\* with the rate-limit signal k times (k <= 4) and then with non-empty text,
\* the calls and cooldowns alternate, and rewriteArticle returns the text
\* after exactly k + 1 calls and k cooldowns of 65 s.
C5_RetryThenSuccess ==
    \A p \in workers :
        LET l == loc[p]
            k == l.backend.limited
        IN  (GeminiOnly /\ l.backend.then = "ok" /\ k <= 4) =>
              /\ IsPrefix(l.llm, RetryPattern(k))
              /\ RewriteEnded(l) =>
                   /\ l.pc = "update"
                   /\ l.updatedContent # EmptyText
                   /\ l.calls = k + 1
                   /\ l.llm = RetryPattern(k)
                   /\ l.slept = k * Cooldown

\* four rate-limited calls, then the fifth call returned the text
C5_Witness ==
    \E p \in workers :
        LET l == loc[p]
        IN  /\ GeminiOnly /\ l.backend = [limited |-> 4, then |-> "ok"]
            /\ l.pc = "update" /\ l.calls = 5 /\ l.slept = 4 * Cooldown

\* C6: with only the secondary backend configured and a backend that always
\* answers with the rate-limit signal, rewriteArticle makes 5 calls, never a
\* 6th, then throws; it never returns, and the article is not written.
C6_RetryExhausted ==
    \A p \in workers :
        LET l == loc[p]
        IN  (GeminiOnly /\ l.backend.then = "429") =>
              /\ l.calls <= 5
              /\ l.pc # "update"
              /\ Cur(l).id \notin l.wrote
              /\ l.pc = "catch" =>
                   /\ l.stage = "rewrite" /\ l.error = "exhausted"
                   /\ l.calls = 5
                   /\ FindById(store, Cur(l).id) = FindById(l.before, Cur(l).id)

\* the fifth rate-limited call ended the rewrite with the exhausted failure
C6_Witness ==
    \E p \in workers :
        LET l == loc[p]
        IN  /\ GeminiOnly /\ l.backend.then = "429"
            /\ l.pc = "catch" /\ l.error = "exhausted" /\ l.calls = 5

\* C7: in the retry loop of the secondary backend, the exhausted failure is
\* raised only when all 5 attempts ended in a rate-limit signal; an attempt
\* that fails with another error is propagated as that error with no
\* cooldown after it; an attempt that returns without a rate-limit signal
\* never produces the exhausted failure.
C7_ExhaustedOnlyAfterFive ==
    \A p \in workers :
        LET l == loc[p]
        IN  (GeminiOnly /\ l.pc = "catch" /\ l.stage = "rewrite") =>
              /\ l.error = "exhausted" =>
                   /\ l.calls = maxAttempts
                   /\ \A n \in 1..l.calls : Respond(l.backend, n) = "429"
              /\ Respond(l.backend, l.calls) = "error" =>
                   /\ l.error = "backend"
                   /\ l.llm[Len(l.llm)] = "gemini"
                   /\ l.slept = (l.calls - 1) * Cooldown
              /\ Respond(l.backend, l.calls) # "429" => l.error # "exhausted"

\* C8: a backend is called only as the configuration says: without any key
\* rewriteArticle throws the configuration error before any call; with the
\* primary key only the primary is called, once, also when it fails and the
\* secondary key is set; the secondary is called only without a primary key.
C8_BackendSelection ==
    \A p \in workers :
        LET l == loc[p]
            called == Range(l.llm)
        IN  /\ "openai" \in called => env.hasOpenAI
            /\ "gemini" \in called => (env.hasGemini /\ ~env.hasOpenAI)
            /\ env.hasOpenAI => (RewriteEnded(l) => l.llm = <<"openai">>)
            /\ (~env.hasOpenAI /\ ~env.hasGemini) =>
                 /\ l.llm = <<>>
                 /\ l.pc \notin {"openai", "gemini", "cooldown", "update"}
                 /\ (l.pc = "catch" /\ l.stage = "rewrite") => l.error = "config"

\* both keys set, the primary call failed: the rewrite threw after that one call
C8_Witness ==
    \E p \in workers :
        LET l == loc[p]
        IN  /\ env.hasOpenAI /\ env.hasGemini
            /\ l.pc = "catch" /\ l.error = "backend" /\ l.llm = <<"openai">>

----------------------------------------------------------------------------
(* The services that drive a browser: searchGoogle, extractArticleContent  *)
(* (called by extractMultipleArticles) and scrapeBeyondChatsArticles.  One *)
(* action is one awaited puppeteer call, which can fail.                   *)

\* if (!content || content.length < 50) of scrapeArticleContent
MinScraped == 50

\* the page texts an extraction meets: none, one short of the threshold, enough
RawPages == {t \in Texts : Len(t) <= 1 /\ \A k \in 1..Len(t) :
                              t[k].c = "x" /\ t[k].n >= MinContent - 1}

\* the content lengths scrapeArticleContent meets
ScrapedLengths == {0, MinScraped - 1, MinScraped}

\* a text of n visible characters
TextOfLength(n) == IF n = 0 THEN <<>> ELSE <<[c |-> "x", n |-> n]>>

\* a scraper that keeps every article it could read, however short
ScrapeResultAny(url, content) ==
    [kind |-> "value", val |-> [originalUrl |-> url]]

\* scrapeArticleContent, lines 158-169: too little content gives null
ScrapeResult(url, content) ==
    IF content = <<>> \/ TextLen(content) < MinScraped
    THEN [kind |-> "null", val |-> <<>>]
    ELSE [kind |-> "value", val |-> [originalUrl |-> url]]

\* scrapeBeyondChatsArticles, lines 71-74: if (article) articles.push(article)
PushArticle(c, ret) ==
    [c EXCEPT !.outcomes = Append(@, ret.kind),
              !.results = IF ret.kind = "value" THEN Append(@, ret.val) ELSE @]

\* a browser session: open until close() succeeded on it ("open", "closed",
\* or "closeFailed" when close() rejected), and the navigations made in it
NewSession == [status |-> "open", visited |-> <<>>]

\* the session the call holds
Held(c) == c.browser[1]

\* the call of fn starts: let browser = null, then the try block
StartCall(c, fn, url) ==
    [c EXCEPT !.fn = fn, !.pc = "launch", !.url = url, !.browser = Null,
              !.ret = NoRet, !.raw = <<>>, !.content = <<>>, !.faults = <<>>]

\* a function without a finally block: it returns at once, browser or not
LeaveWithoutFinally(c, ret) == [c EXCEPT !.ret = ret, !.pc = "returned"]

\* the try block is left with a value for return or with an exception;
\* finally closes the browser if there is one (`if (browser)`)
Leave(c, ret) ==
    [c EXCEPT !.ret = ret, !.pc = IF c.browser = Null THEN "returned" ELSE "finally"]

\* the next article of the scraper's loop, or `return articles`
ScrapeAdvance(c) ==
    IF c.k < Len(c.urls)
    THEN [c EXCEPT !.k = c.k + 1, !.url = c.urls[c.k + 1], !.pc = "a_goto"]
    ELSE Leave(c, [kind |-> "list", val |-> c.results])

\* a searchGoogle without the inner catch: every failure is thrown again
FailOuterCatch(c, step) ==
    LET d == [c EXCEPT !.faults = Append(@, step)]
    IN  CASE c.fn = "extractArticleContent" ->
               Leave(d, [kind |-> "null", val |-> <<>>])
          [] c.fn = "searchGoogle" ->
               Leave(d, [kind |-> "throw", val |-> step])
          [] OTHER ->
               IF c.pc \in {"a_goto", "a_wait", "a_read"}
               THEN ScrapeAdvance(PushArticle(d, [kind |-> "null", val |-> <<>>]))
               ELSE Leave(d, [kind |-> "throw", val |-> step])

\* an awaited call rejected at `step`: the catch block that is nearest
Fail(c, step) ==
    LET d == [c EXCEPT !.faults = Append(@, step)]
    IN  CASE c.fn = "extractArticleContent" ->
               \* lines 116-118: logged, return null
               Leave(d, [kind |-> "null", val |-> <<>>])
          [] c.fn = "searchGoogle" ->
               IF step \in {"goto", "wait"}
               \* lines 37-40: the inner catch returns []
               THEN Leave(d, [kind |-> "list", val |-> <<>>])
               \* lines 87-89: logged, thrown again
               ELSE Leave(d, [kind |-> "throw", val |-> step])
          [] OTHER ->
               IF c.pc \in {"a_goto", "a_wait", "a_read"}
               \* scrapeArticleContent, lines 171-174: logged, return null
               THEN ScrapeAdvance(PushArticle(d, [kind |-> "null", val |-> <<>>]))
               \* lines 83-85: logged, thrown again
               ELSE Leave(d, [kind |-> "throw", val |-> step])

\* browser = await puppeteer.launch(...)
Launch(p) ==
    /\ loc[p].pc = "call" /\ loc[p].call.pc = "launch"
    /\ \E ok \in BOOLEAN :
         LET c == loc[p].call
         IN  loc' = [loc EXCEPT ![p].call =
                       IF ok
                       THEN [c EXCEPT !.sessions = Append(@, NewSession),
                                      !.browser = Some(Len(c.sessions) + 1),
                                      !.pc = "page"]
                       ELSE Fail(c, "launch")]
    /\ UNCHANGED <<store, env, workers>>

\* await browser.newPage(); await page.setUserAgent(...)
NewPage(p) ==
    /\ loc[p].pc = "call" /\ loc[p].call.pc = "page"
    /\ \E ok \in BOOLEAN :
         LET c == loc[p].call
         IN  loc' = [loc EXCEPT ![p].call =
                       IF ok THEN [c EXCEPT !.pc = "goto"] ELSE Fail(c, "page")]
    /\ UNCHANGED <<store, env, workers>>

\* the page a goto of the call asks for
Target(c) ==
    CASE c.fn = "searchGoogle" -> <<"results", c.url>>
      [] c.fn = "scrapeBeyondChatsArticles" /\ c.pc = "goto" -> <<"index", 0>>
      [] OTHER -> <<"article", c.url>>

\* await page.goto(url, ...): the session navigates, the load can fail
Goto(p) ==
    /\ loc[p].pc = "call" /\ loc[p].call.pc \in {"goto", "a_goto"}
    /\ \E ok \in BOOLEAN :
         LET c == loc[p].call
             d == [c EXCEPT !.sessions[Held(c)].visited = Append(@, Target(c))]
         IN  loc' = [loc EXCEPT ![p].call =
                       IF ok
                       THEN [d EXCEPT !.pc = IF c.pc = "goto" THEN "wait" ELSE "a_wait"]
                       ELSE Fail(d, "goto")]
    /\ UNCHANGED <<store, env, workers>>

\* await page.waitForSelector(..., { timeout })
WaitForSelector(p) ==
    /\ loc[p].pc = "call" /\ loc[p].call.pc \in {"wait", "a_wait"}
    /\ \E ok \in BOOLEAN :
         LET c == loc[p].call
         IN  loc' = [loc EXCEPT ![p].call =
                       IF ok
                       THEN [c EXCEPT !.pc = IF c.pc = "wait" THEN "read" ELSE "a_read"]
                       ELSE Fail(c, "wait")]
    /\ UNCHANGED <<store, env, workers>>

\* searchGoogle, lines 43-85: page.evaluate collects the results, the
\* first numResults are returned
Evaluate(p) ==
    /\ loc[p].pc = "call" /\ loc[p].call.pc = "read"
    /\ loc[p].call.fn = "searchGoogle"
    /\ \E ok \in BOOLEAN, n \in 0..Len(ResultUrls) :
         LET c == loc[p].call
         IN  /\ ~ok => n = 0
             /\ loc' = [loc EXCEPT ![p].call =
                          IF ok
                          THEN Leave(c, [kind |-> "list",
                                         val |-> Slice(SubSeq(ResultUrls, 1, n), NumResults)])
                          ELSE Fail(c, "evaluate")]
    /\ UNCHANGED <<store, env, workers>>

\* extractArticleContent, line 35: const html = await page.content()
PageContent(p) ==
    /\ loc[p].pc = "call" /\ loc[p].call.pc = "read"
    /\ loc[p].call.fn = "extractArticleContent"
    /\ \E ok \in BOOLEAN, raw \in RawPages :
         LET c == loc[p].call
         IN  /\ ~ok => raw = <<>>
             /\ loc' = [loc EXCEPT ![p].call =
                          IF ok THEN [c EXCEPT !.raw = raw, !.pc = "parse"]
                          ELSE Fail(c, "content")]
    /\ UNCHANGED <<store, env, workers>>

\* scrapeBeyondChatsArticles, lines 42-68: the index page is read, the
\* links collected, the last ones selected and the loop entered
ReadIndex(p) ==
    /\ loc[p].pc = "call" /\ loc[p].call.pc = "read"
    /\ loc[p].call.fn = "scrapeBeyondChatsArticles"
    /\ \E ok \in BOOLEAN, articlesToScrape \in ScrapedLists :
         LET c == loc[p].call
         IN  /\ ~ok => articlesToScrape = <<>>
             /\ loc' = [loc EXCEPT ![p].call =
                          IF ok
                          THEN ScrapeAdvance([c EXCEPT !.urls = articlesToScrape,
                                                       !.k = 0, !.results = <<>>])
                          ELSE Fail(c, "content")]
    /\ UNCHANGED <<store, env, workers>>

\* scrapeArticleContent, lines 103-169: the article page is read; content
\* of fewer than 50 characters gives null, else the article is pushed
ReadArticle(p) ==
    /\ loc[p].pc = "call" /\ loc[p].call.pc = "a_read"
    /\ \E ok \in BOOLEAN, len \in ScrapedLengths :
         LET c == loc[p].call
             d == [c EXCEPT !.content = TextOfLength(len)]
         IN  /\ ~ok => len = 0
             /\ loc' = [loc EXCEPT ![p].call =
                          IF ~ok THEN Fail(c, "content")
                          ELSE ScrapeAdvance(PushArticle(d, ScrapeResult(d.url, d.content)))]
    /\ UNCHANGED <<store, env, workers>>

\* finally { if (browser) await browser.close() }: a close that rejects
\* replaces the value the try block returned by its exception
Close(p) ==
    /\ loc[p].pc = "call" /\ loc[p].call.pc = "finally"
    /\ \E ok \in BOOLEAN :
         LET c == loc[p].call
         IN  loc' = [loc EXCEPT ![p].call =
                       IF ok
                       THEN [c EXCEPT !.sessions[Held(c)].status = "closed",
                                      !.pc = "returned"]
                       ELSE [c EXCEPT !.sessions[Held(c)].status = "closeFailed",
                                      !.faults = Append(@, "close"),
                                      !.ret = [kind |-> "throw", val |-> "close"],
                                      !.pc = "returned"]]
    /\ UNCHANGED <<store, env, workers>>

\* step 1 of the pipeline: searchGoogle(article.title, 2) is called
SearchGoogle(p) ==
    /\ loc[p].pc = "search"
    /\ loc' = [loc EXCEPT ![p] =
                 [loc[p] EXCEPT !.pc = "call",
                                !.call = StartCall(@, "searchGoogle", Cur(loc[p]).id)]]
    /\ UNCHANGED <<store, env, workers>>

\* searchGoogle has returned or thrown: back in the pipeline
SearchReturn(p) ==
    /\ loc[p].pc = "call" /\ loc[p].call.pc = "returned"
    /\ loc[p].call.fn = "searchGoogle"
    /\ LET l == [loc[p] EXCEPT !.log = Append(@, "search"),
                               !.attempted = Append(@, Cur(loc[p]).id),
                               !.call.pc = "done"]
       IN  loc' = [loc EXCEPT ![p] =
                     IF l.call.ret.kind = "throw" THEN Throw(l, "search", "search")
                     ELSE AfterSearch(l, l.call.ret.val)]
    /\ UNCHANGED <<store, env, workers>>

\* step 2 of the pipeline: extractMultipleArticles(referenceUrls) is called
\* and its loop calls extractArticleContent for the first URL
ExtractMultipleArticles(p) ==
    /\ loc[p].pc = "extract"
    /\ LET l == loc[p]
           urls == l.searchResults
       IN  loc' = [loc EXCEPT ![p] =
                     IF Len(urls) = 0
                     THEN AfterExtract([l EXCEPT !.log = Append(@, "extract")], <<>>)
                     ELSE [l EXCEPT !.pc = "call",
                                    !.call = [StartCall(@, "extractArticleContent", urls[1])
                                                EXCEPT !.urls = urls, !.k = 1,
                                                       !.results = <<>>, !.outcomes = <<>>]]]
    /\ UNCHANGED <<store, env, workers>>

\* a loop that pushes whatever the call gave, content or not
PushResultAlways(results, ret) ==
    Append(results, IF ret.kind = "value" THEN ret.val ELSE [url |-> 0, content |-> <<>>])

\* lines 148-155: content is pushed; null and a caught exception are not
PushResult(results, ret) ==
    IF ret.kind = "value" THEN Append(results, ret.val) ELSE results

\* extractMultipleArticles, lines 147-158: extractArticleContent has
\* returned or thrown; content is pushed, null skipped, an exception logged;
\* then the next URL, or `return results`
ExtractReturn(p) ==
    /\ loc[p].pc = "call" /\ loc[p].call.pc = "returned"
    /\ loc[p].call.fn = "extractArticleContent"
    /\ LET l == loc[p]
           c == l.call
           d == [c EXCEPT !.outcomes = Append(@, c.ret.kind),
                          !.results = PushResult(@, c.ret)]
       IN  loc' = [loc EXCEPT ![p] =
                     IF c.k < Len(c.urls)
                     THEN [l EXCEPT !.call =
                             [StartCall(d, "extractArticleContent", c.urls[c.k + 1])
                                EXCEPT !.k = c.k + 1]]
                     ELSE AfterExtract([l EXCEPT !.log = Append(@, "extract"),
                                                 !.call = [d EXCEPT !.pc = "done"]],
                                       d.results)]
    /\ UNCHANGED <<store, env, workers>>

\* scrapeArticles, lines 198-202: the endpoint calls scrapeBeyondChatsArticles
ScrapeArticlesCall(p) ==
    /\ CanStart(p)
    /\ loc' = [loc EXCEPT ![p] =
                 [FreshLoc(loc[p], "scrape") EXCEPT
                    !.pc = "call",
                    !.call = StartCall(NoCall, "scrapeBeyondChatsArticles", 0)]]
    /\ UNCHANGED <<store, env, workers>>

\* scrapeBeyondChatsArticles has returned its articles or thrown
ScrapeReturn(p) ==
    /\ loc[p].pc = "call" /\ loc[p].call.pc = "returned"
    /\ loc[p].call.fn = "scrapeBeyondChatsArticles"
    /\ LET l == [loc[p] EXCEPT !.call.pc = "done"]
           threw == l.call.ret.kind = "throw"
       IN  loc' = [loc EXCEPT ![p] =
                     Scraped(l, threw, IF threw THEN <<>> ELSE l.call.ret.val)]
    /\ UNCHANGED <<store, env, workers>>

\* number of articles in the store when a request with browser calls starts
MaxFetchArticles == 1

\* the last request of a run is about to be issued: an enhancement or a
\* scrape, with the primary backend configured
InitFetch ==
    /\ \E n \in 0..MaxFetchArticles : store = CreatedStore(n)
    /\ env = [hasOpenAI |-> TRUE, hasGemini |-> FALSE]
    /\ workers = {1}
    /\ loc = [p \in Procs |-> [IdleLoc EXCEPT !.requests = MaxRequests - 1]]

NextFetch ==
    \/ \E p \in workers : EnhanceArticles(p)
    \/ \E p \in workers : EnhanceArticleById(p)
    \/ \E p \in workers : ScrapeArticlesCall(p)
    \/ \E p \in workers : SearchGoogle(p)
    \/ \E p \in workers : ExtractMultipleArticles(p)
    \/ \E p \in workers : Launch(p)
    \/ \E p \in workers : NewPage(p)
    \/ \E p \in workers : Goto(p)
    \/ \E p \in workers : WaitForSelector(p)
    \/ \E p \in workers : Evaluate(p)
    \/ \E p \in workers : PageContent(p)
    \/ \E p \in workers : ExtractContent(p)
    \/ \E p \in workers : ReadIndex(p)
    \/ \E p \in workers : ReadArticle(p)
    \/ \E p \in workers : Close(p)
    \/ \E p \in workers : SearchReturn(p)
    \/ \E p \in workers : ExtractReturn(p)
    \/ \E p \in workers : ScrapeReturn(p)
    \/ \E p \in workers : Rewrite(p)
    \/ \E p \in workers : OpenAI(p)
    \/ \E p \in workers : Update(p)
    \/ \E p \in workers : Catch(p)
    \/ \E p \in workers : ScrapeFind(p)
    \/ \E p \in workers : ScrapeInsert(p)

SpecFetch == InitFetch /\ [][NextFetch]_vars

----------------------------------------------------------------------------
(* The links of the index page (scrapeBeyondChatsArticles, lines 45-63).   *)
(* An href is the string of the attribute: a path, written relative to the *)
(* index or as an absolute URL.  A URL is an absolute href.                *)

\* number of anchors on the index page, number of distinct article paths
MaxAnchors == 3
MaxPaths == 2
\* articleLinks.slice(-5)
LastLinks == 5

Hrefs == [abs : BOOLEAN, path : 1..MaxPaths]

\* href.startsWith('http') ? href : new URL(href, blogUrl).href
AbsoluteUrl(href) == IF href.abs THEN href ELSE [href EXCEPT !.abs = TRUE]

\* articleLinks.includes(href): the attribute itself is looked up
Includes(articleLinks, href) == href \in Range(articleLinks)

\* Array.prototype.slice(-n)
SliceLast(s, n) == IF Len(s) <= n THEN s ELSE SubSeq(s, Len(s) - n + 1, Len(s))

\* the callback of .each for the anchor after the k anchors already seen
EachAnchor(p) ==
    /\ loc[p].pc = "call" /\ loc[p].call.pc = "links"
    /\ loc[p].call.k < Len(loc[p].call.hrefs)
    /\ LET c == loc[p].call
           href == c.hrefs[c.k + 1]
       IN  loc' = [loc EXCEPT ![p].call =
                     IF ~Includes(c.articleLinks, href)
                     THEN [c EXCEPT !.k = c.k + 1,
                                    !.articleLinks = Append(@, AbsoluteUrl(href))]
                     ELSE [c EXCEPT !.k = c.k + 1]]
    /\ UNCHANGED <<store, env, workers>>

\* lines 62-68: the last links are selected and the loop over them starts
SelectLinks(p) ==
    /\ loc[p].pc = "call" /\ loc[p].call.pc = "links"
    /\ loc[p].call.k = Len(loc[p].call.hrefs)
    /\ LET c == loc[p].call
       IN  loc' = [loc EXCEPT ![p].call =
                     [c EXCEPT !.urls = SliceLast(c.articleLinks, LastLinks),
                               !.k = 0, !.results = <<>>, !.pc = "selected"]]
    /\ UNCHANGED <<store, env, workers>>

\* the index page has been read: its anchors carry any hrefs
InitLinks ==
    /\ store = <<>>
    /\ env = [hasOpenAI |-> FALSE, hasGemini |-> FALSE]
    /\ workers = {1}
    /\ \E n \in 0..MaxAnchors : \E hrefs \in [1..n -> Hrefs] :
         loc = [p \in Procs |->
                  IF p = 1
                  THEN [IdleLoc EXCEPT !.pc = "call", !.kind = "scrape",
                          !.call = [NoCall EXCEPT !.fn = "scrapeBeyondChatsArticles",
                                                  !.pc = "links", !.hrefs = hrefs]]
                  ELSE IdleLoc]

NextLinks ==
    \/ \E p \in workers : EachAnchor(p)
    \/ \E p \in workers : SelectLinks(p)

SpecLinks == InitLinks /\ [][NextLinks]_vars

----------------------------------------------------------------------------
(* The content strategies of extractArticleContent (lines 46-98).  A page  *)
(* is what it holds under each selector of contentSelectors, in the order  *)
(* of the list: no element (null), or the length of the text collected     *)
(* from the element's paragraphs; and the length of the text of all <p>.   *)

\* number of selectors in contentSelectors
MaxSelectors == 3
\* if (content.length > 200) break;  if (!content || content.length < 200)
Substantial == 200

ContainerLengths == {0, Substantial - 1, Substantial, Substantial + 1}

Containers == {Null} \cup {Some(n) : n \in ContainerLengths}

\* lines 60-87: the loop is left after selector k by the break, or at its end
LoopEnds(c, k) ==
    \/ k = Len(c.containers)
    \/ c.containers[k] # Null /\ c.containers[k][1] > Substantial

\* lines 60-88: one iteration of for (const selector of contentSelectors)
TrySelector(p) ==
    /\ loc[p].pc = "call" /\ loc[p].call.pc = "select"
    /\ LET c == loc[p].call
           k == c.k + 1
           d == IF c.containers[k] # Null
                \* element.length > 0: content = textParts.join(...)
                THEN [c EXCEPT !.k = k, !.raw = TextOfLength(c.containers[k][1]),
                               !.from = <<"selector", k>>]
                ELSE [c EXCEPT !.k = k]
       IN  loc' = [loc EXCEPT ![p].call =
                     IF LoopEnds(c, k) THEN [d EXCEPT !.pc = "strategy2"] ELSE d]
    /\ UNCHANGED <<store, env, workers>>

\* lines 90-98: strategy 2, all paragraphs of the document
AllParagraphs(p) ==
    /\ loc[p].pc = "call" /\ loc[p].call.pc = "strategy2"
    /\ LET c == loc[p].call
       IN  loc' = [loc EXCEPT ![p].call =
                     IF c.raw = <<>> \/ TextLen(c.raw) < Substantial
                     THEN [c EXCEPT !.raw = TextOfLength(c.paragraphs),
                                    !.from = <<"paragraphs", 0>>, !.pc = "parse"]
                     ELSE [c EXCEPT !.pc = "parse"]]
    /\ UNCHANGED <<store, env, workers>>

\* extractArticleContent has loaded a page: let content = ''
InitSelect ==
    /\ store = <<>>
    /\ env = [hasOpenAI |-> FALSE, hasGemini |-> FALSE]
    /\ workers = {1}
    /\ \E n \in 1..MaxSelectors, url \in 1..Len(ResultUrls) :
       \E containers \in [1..n -> Containers], paragraphs \in ContainerLengths :
         loc = [p \in Procs |->
                  IF p = 1
                  THEN [IdleLoc EXCEPT !.pc = "call", !.kind = "extract",
                          !.call = [NoCall EXCEPT !.fn = "extractArticleContent",
                                                  !.pc = "select", !.url = url,
                                                  !.containers = containers,
                                                  !.paragraphs = paragraphs]]
                  ELSE IdleLoc]

NextSelect ==
    \/ \E p \in workers : TrySelector(p)
    \/ \E p \in workers : AllParagraphs(p)
    \/ \E p \in workers : ExtractContent(p)

SpecSelect == InitSelect /\ [][NextSelect]_vars

----------------------------------------------------------------------------
(* Properties of ingestion *)

\* the URL the worker's store call is about
UrlOf(l) == IF l.kind = "create" THEN l.originalUrl ELSE Cur(l).originalUrl

\* C9: whatever create requests and scrape-persist runs (endpoint or script)
\* have done, also when two of them interleave between their existence check
\* and their insert, no two rows of the store have the same originalUrl.
C9_UniqueOriginalUrl ==
    \A j, k \in 1..Len(store) :
        store[j].originalUrl = store[k].originalUrl => j = k

\* two requests passed the existence check for the same URL; one inserted
\* it, the insert of the other was refused, and the URL has one row
C9_Witness ==
    \E p, q \in workers :
        /\ p # q
        /\ loc[p].error = "unique"
        /\ loc[q].wrote # {}
        /\ \E a \in Range(store) : a.id \in loc[q].wrote /\ a.originalUrl = UrlOf(loc[p])
        /\ Cardinality(FindByUrl(store, UrlOf(loc[p]))) = 1

\* C10: a create request whose URL has a row is answered 409 and changes
\* nothing; a scraped article whose URL has a row is skipped: no row is
\* created, the saved count and list stay, no error is raised, and the loop
\* goes on with the next article or ends normally; and when a persist loop
\* has ended normally every scraped URL has a row and the saved count is the
\* number of rows the run created.
C10_DuplicatePolicy ==
    [][\A p \in workers :
         LET l == loc[p]
             m == loc'[p]
         IN  /\ (l.pc = "create_find" /\ m # l /\ FindByUrl(store, l.originalUrl) # {}) =>
                  /\ m.pc = "done"
                  /\ m.response.status = 409
                  /\ store' = store
             /\ (l.pc = "scrape_find" /\ m # l
                   /\ FindByUrl(store, Cur(l).originalUrl) # {}) =>
                  /\ store' = store
                  /\ m.savedCount = l.savedCount
                  /\ m.savedArticles = l.savedArticles
                  /\ m.wrote = l.wrote
                  /\ m.error = "none" /\ m.exitCode = 0
                  /\ IF l.i < Len(l.articles)
                     THEN m.pc = "scrape_find" /\ m.i = l.i + 1 /\ m.response = NoResponse
                     ELSE /\ m.pc = "done"
                          /\ m.response.status = IF l.kind = "scrape" THEN 200 ELSE 0
             /\ (l.pc \in {"scrape_find", "scrape_insert"} /\ m.pc = "done"
                   /\ m.error = "none") =>
                  /\ \A k \in 1..Len(m.articles) :
                       FindByUrl(store', m.articles[k].originalUrl) # {}
                  /\ m.savedCount = Cardinality(m.wrote)
                  /\ l.kind = "scrape" =>
                       /\ m.response.status = 200
                       /\ m.response.count = m.savedCount
                       /\ Len(m.response.articles) = m.savedCount
    ]_vars

\* a create was answered 409 for a stored URL, and a scrape of that URL and
\* a new one was answered 200 after it skipped the first and saved the second
C10_Witness ==
    \E p, q \in workers :
        /\ loc[p].kind = "create" /\ loc[p].pc = "done"
        /\ loc[p].response.status = 409
        /\ loc[q].kind = "scrape" /\ loc[q].pc = "done"
        /\ loc[q].response.status = 200
        /\ Len(loc[q].articles) = 2
        /\ loc[q].articles[1].originalUrl = loc[p].originalUrl
        /\ FindByUrl(loc[q].before, loc[q].articles[1].originalUrl) # {}
        /\ loc[q].savedCount = 1
        /\ loc[q].response.articles[1].originalUrl = loc[q].articles[2].originalUrl

----------------------------------------------------------------------------
(* Properties of the article lifecycle *)

\* C11: isUpdated is monotonic: no step of any operation takes an article
\* whose isUpdated is true to isUpdated false.
C11_IsUpdatedMonotonic ==
    [][\A k \in 1..Len(store) :
         store[k].isUpdated =>
            \A a \in FindById(store', store[k].id) : a.isUpdated]_vars

\* C12: the orchestrator writes updatedContent and references of an article
\* once, when isUpdated goes from false to true: every store update a batch
\* or single-article enhancement performs is for an article whose isUpdated
\* is false at that moment.
C12_EnhancedOnce ==
    [][\A p \in workers :
         LET l == loc[p]
             m == loc'[p]
         IN  (l.pc = "update" /\ l.kind \in {"batch", "byId"}
                /\ m # l /\ m.stage # "update") =>
               \A a \in FindById(store, Cur(l).id) : ~a.isUpdated]_vars

----------------------------------------------------------------------------
(* Properties of one batch *)

\* C13: a batch request runs the pipeline for at most 5 articles, each of
\* them stored with isUpdated = false when the batch was selected; when the
\* store held no such article the request searches, extracts, rewrites and
\* writes nothing and answers 200 with count 0.
C13_BatchBound ==
    \A p \in workers :
        LET l == loc[p]
        IN  l.kind = "batch" =>
              /\ Len(l.articles) <= 5
              /\ Len(l.attempted) <= 5
              /\ \A k \in 1..Len(l.attempted) :
                   /\ l.attempted[k] = l.articles[k].id
                   /\ \E a \in Range(l.before) : a.id = l.attempted[k] /\ ~a.isUpdated
              /\ l.wrote \subseteq Range(l.attempted)
              /\ (\A a \in Range(l.before) : a.isUpdated) =>
                   /\ l.attempted = <<>> /\ l.wrote = {} /\ l.log = <<>> /\ l.calls = 0
                   /\ store = l.before
                   /\ l.pc = "done"
                   /\ l.error = "none" =>
                        l.response = [status |-> 200, count |-> 0, articles |-> <<>>]

\* a batch on a store with six articles to enhance has ended: it ran the
\* pipeline for the first five, enhanced some, and left the sixth alone
C13_Witness ==
    \E p \in workers :
        /\ loc[p].kind = "batch" /\ loc[p].pc = "done"
        /\ Len(FindAllNotUpdated(loc[p].before)) > 5
        /\ Len(loc[p].attempted) = 5
        /\ loc[p].successCount >= 1
        /\ \E a \in Range(store) : a.id \notin Range(loc[p].attempted) /\ ~a.isUpdated

\* the orders in which the stages of one article can have been entered
StageOrders ==
    {<<>>, <<"search">>, <<"search", "extract">>,
     <<"search", "rewrite">>, <<"search", "extract", "rewrite">>,
     <<"search", "rewrite", "update">>,
     <<"search", "extract", "rewrite", "update">>}

\* the article at position k of the batch has been written or has failed
Finished(l, k) ==
    \/ l.articles[k].id \in l.wrote
    \/ \E f \in Range(l.failures) : f[1] = l.articles[k].id

\* C14: a batch works on one article at a time, in the order of selection;
\* the stages of an article are entered in the order search, extract,
\* rewrite, update; a stage of article i is entered only when every article
\* before it was written or has failed; and the store update of an article
\* is issued only after its rewrite returned content.
C14_SequentialStages ==
    \A p \in workers :
        LET l == loc[p]
        IN  l.kind = "batch" =>
              /\ l.log \in StageOrders
              /\ l.i <= Len(l.articles)
              /\ Len(l.attempted) \in {l.i - 1, l.i} \cap Nat
              /\ \A k \in 1..Len(l.attempted) : l.attempted[k] = l.articles[k].id
              /\ l.log # <<>> => Len(l.attempted) = l.i
              /\ \A k \in 1..(l.i - 1) : Finished(l, k)
              /\ l.pc \notin {"done", "idle"} =>
                   /\ ~Finished(l, l.i)
                   /\ l.successCount + l.failureCount = l.i - 1
              /\ (l.pc = "update" \/ "update" \in Range(l.log)) =>
                   /\ l.log[Len(l.log) - (IF l.pc = "update" THEN 0 ELSE 1)] = "rewrite"
                   /\ Len(l.updatedContent) > 0
                   /\ l.calls >= 1

\* a batch is about to write its second article: the first was written,
\* the second went through search, extraction and rewrite
C14_Witness ==
    \E p \in workers :
        /\ loc[p].kind = "batch" /\ loc[p].pc = "update" /\ loc[p].i = 2
        /\ loc[p].articles[1].id \in loc[p].wrote
        /\ loc[p].log = <<"search", "extract", "rewrite">>

----------------------------------------------------------------------------
(* Properties of the content extractor *)

\* the sessions of the call that are open
OpenSessions(c) == {k \in 1..Len(c.sessions) : c.sessions[k].status = "open"}

C16_OneFetchPerSession ==
    \A p \in workers :
        \A k \in 1..Len(loc[p].call.sessions) :
            Len(loc[p].call.sessions[k].visited) <= 1

RECURSIVE Picked(_, _)
\* the urls whose outcome is "value", in the order of urls
Picked(urls, outcomes) ==
    IF urls = <<>> \/ outcomes = <<>> THEN <<>>
    ELSE (IF Head(outcomes) = "value" THEN <<Head(urls)>> ELSE <<>>)
         \o Picked(Tail(urls), Tail(outcomes))

\* C17: extractMultipleArticles lets no exception escape, takes the URLs one
\* at a time in input order, and returns exactly the URLs whose extraction
\* gave content, in input order; its result is never longer than its input.
C17_ExtractMultiple ==
    \A p \in workers :
        LET l == loc[p]
            c == l.call
        IN  (c.fn = "extractArticleContent") =>
              /\ Cardinality(OpenSessions(c)) <= 1
              /\ c.k \in 1..Len(c.urls)
              /\ Len(c.outcomes) \in {c.k - 1, c.k}
              /\ RefUrls(c.results) = Picked(c.urls, c.outcomes)
              /\ Len(c.results) <= Len(c.urls)
              /\ \A k \in 1..Len(c.sessions) : Len(c.sessions[k].visited) <= 1
              /\ c.browser # Null =>
                   c.sessions[Held(c)].visited \in {<<>>, <<<<"article", c.urls[c.k]>>>>}
              /\ c.pc = "done" => Len(c.outcomes) = Len(c.urls)
              \* the pipeline of the article the call was made for goes on
              /\ (c.pc = "done" /\ "extract" \in Range(l.log)) =>
                   /\ l.referenceArticles = c.results
                   /\ l.stage # "extract"

\* the extraction of the first of two URLs threw when its browser was
\* closed, the second gave content: the second URL alone was returned and
\* the pipeline went on to the rewrite
C17_Witness ==
    \E p \in workers :
        LET c == loc[p].call
        IN  /\ c.fn = "extractArticleContent" /\ c.pc = "done"
            /\ Len(c.urls) = 2
            /\ c.outcomes = <<"throw", "value">>
            /\ RefUrls(c.results) = <<c.urls[2]>>
            /\ loc[p].pc = "rewrite"

\* C18: extractArticleContent never throws: whatever step failed (launch,
\* navigation, the wait for body, reading or parsing the page, closing the
\* browser), the call returns null.
C18_ExtractNeverThrows ==
    \A p \in workers :
        LET c == loc[p].call
        IN  (c.fn = "extractArticleContent" /\ c.pc = "returned") =>
              /\ c.ret.kind # "throw"
              /\ c.faults # <<>> => c.ret.kind = "null"

Chars(t) == LET n[k \in 0..Len(t)] == IF k = 0 THEN 0 ELSE n[k - 1] + t[k].n
            IN  n[Len(t)]

\* C19: once the page text is normalised, extractArticleContent hands null
\* to return exactly when the normalised text has fewer than 100 characters:
\* 99 characters give null, 100 give the content, and the length that counts
\* is the one after normalisation, not the one of the text as extracted.
C19_ContentThreshold ==
    \A p \in workers :
        LET c == loc[p].call
        IN  (c.fn = "extractArticleContent" /\ c.pc = "finally" /\ c.faults = <<>>) =>
              /\ c.ret.kind \in {"null", "value"}
              /\ c.ret.kind = "null" <=> Chars(c.content) < 100
              /\ Chars(c.content) = 99 => c.ret.kind = "null"
              /\ Chars(c.content) = 100 => c.ret.kind = "value"
              /\ c.ret.kind = "value" => c.ret.val.content = c.content

\* a text of 100 characters as extracted, 99 after normalisation, gave null
C19_Witness ==
    \E p \in workers :
        LET c == loc[p].call
        IN  /\ c.fn = "extractArticleContent" /\ c.pc = "finally"
            /\ Chars(c.raw) = 100 /\ Chars(c.content) = 99
            /\ c.ret.kind = "null"

----------------------------------------------------------------------------
(* Properties of the references *)

----------------------------------------------------------------------------
(* Properties of the batch response *)

----------------------------------------------------------------------------
(* The update script against the batch endpoint *)

\* C23: the update script is the batch of the endpoint plus a delay: it
\* selects the articles the endpoint selects (not yet updated, at most
\* Take), and like the endpoint it counts an article as failed only in the
\* catch block, when a stage threw: a search or an extraction that returned
\* nothing is no failure.
C23_ScriptSameAsEndpoint ==
    [][\A p \in workers :
         LET l == loc[p]
             m == loc'[p]
         IN  /\ (m.kind = "script" /\ m.requests = l.requests + 1 /\ m.pc = "search") =>
                  m.articles = FindManyNotUpdated(store, Take)
             /\ (l.kind = "script" /\ m.requests = l.requests
                    /\ m.failureCount > l.failureCount) =>
                  l.pc = "catch"]_vars

----------------------------------------------------------------------------
(* Properties of overlapping enhancement requests *)

\* the requests of both workers found the article not yet enhanced and both
\* wrote it
BothWrote(id) ==
    \A p \in workers :
        /\ loc[p].pc = "done" /\ id \in loc[p].wrote
        /\ Row(loc[p].before, id).isUpdated = FALSE

\* C24: overlapping enhancement requests for one article are not kept
\* apart: both can run the pipeline and both write.  Every write stores
\* isUpdated=true with the updatedContent and the references of the run
\* that makes it and touches no other row, so the article never holds the
\* content of one run with the references of the other; after both wrote,
\* the article is enhanced with the text of one of the two runs.
C24_RaceWritesWhole ==
    [][/\ \A p \in workers :
            LET l == loc[p]
                m == loc'[p]
            IN  (l.pc = "update" /\ m # l /\ m.pc # "catch") =>
                  LET id == Cur(l).id
                  IN  /\ Row(store', id) =
                           [Row(store, id) EXCEPT !.isUpdated = TRUE,
                                                  !.updatedContent = Some(l.updatedContent),
                                                  !.references = l.references]
                      /\ l.updatedContent = TextOf(p)
                      /\ l.references = RefUrls(l.referenceArticles)
                      /\ \A k \in 1..Len(store) :
                           store[k].id # id => store'[k] = store[k]
       /\ store' # store => \E p \in workers : loc[p].pc = "update" /\ loc'[p] # loc[p]
       /\ \A k \in 1..Len(store) :
            BothWrote(store[k].id)' =>
              /\ store'[k].isUpdated
              /\ \E p \in workers : store'[k].updatedContent = Some(TextOf(p))]_vars

\* two requests started on the article before either wrote; the runs
\* extracted different references; worker 2 wrote first, worker 1 last: the
\* article holds the text and the references of worker 1
C24_Witness ==
    /\ workers = {1, 2}
    /\ BothWrote(1)
    /\ loc[1].kind = "batch" /\ loc[2].kind = "byId"
    /\ loc[2].response.articles[1].updatedContent = Some(TextOf(2))
    /\ loc[1].response.articles[1].updatedContent = Some(TextOf(1))
    /\ loc[1].references # loc[2].references
    /\ loc[2].references # <<>>
    /\ Row(store, 1).updatedContent = Some(TextOf(1))
    /\ Row(store, 1).references = loc[1].references

----------------------------------------------------------------------------
(* Properties of the scraper *)

NoDuplicates(s) == \A i, j \in 1..Len(s) : s[i] = s[j] => i = j

\* C25: the links the scraper collects from the index page are absolute
\* URLs and no URL is in the list twice, whatever hrefs, relative or
\* absolute, the anchors carry.
C25_LinksDuplicateFree ==
    \A p \in workers :
        LET c == loc[p].call
        IN  (c.fn = "scrapeBeyondChatsArticles" /\ c.pc \in {"links", "selected"}) =>
              /\ \A k \in 1..Len(c.articleLinks) : c.articleLinks[k].abs
              /\ NoDuplicates(c.articleLinks)
              /\ c.pc = "selected" => NoDuplicates(c.urls)

\* the steps of scrapeArticleContent
ArticleSteps == {"a_goto", "a_wait", "a_read"}

\* C26: in the scraper's loop a selected URL gives an article exactly when
\* no step of its fetch failed and the content read has at least 50
\* characters; otherwise the URL is dropped, and in both cases the loop goes
\* on with the next selected URL (or returns the list); the articles are in
\* the order of the selected URLs.
C26_ScraperKeepsLongEnough ==
    [][\A p \in workers :
         LET c == loc[p].call
             d == loc'[p].call
         IN  (c.fn = "scrapeBeyondChatsArticles" /\ c.pc \in ArticleSteps /\ d # c) =>
               /\ c.url = c.urls[c.k]
               /\ Len(c.outcomes) = c.k - 1
               /\ [k \in 1..Len(c.results) |-> c.results[k].originalUrl]
                    = Picked(c.urls, c.outcomes)
               \* the step ended the fetch of c.url
               /\ (d.pc \notin {"a_wait", "a_read"}) =>
                    /\ d.results =
                         IF c.pc = "a_read" /\ d.faults = c.faults
                            /\ TextLen(d.content) >= MinScraped
                         THEN Append(c.results, [originalUrl |-> c.url])
                         ELSE c.results
                    /\ IF c.k < Len(c.urls)
                       THEN d.pc = "a_goto" /\ d.k = c.k + 1 /\ d.url = c.urls[d.k]
                       ELSE d.pc = "finally"
                            /\ d.ret = [kind |-> "list", val |-> d.results]]_vars

\* of two selected URLs the first could not be loaded and the second gave
\* 50 characters: the list handed to return holds the second alone
C26_Witness ==
    \E p \in workers :
        LET c == loc[p].call
        IN  /\ c.fn = "scrapeBeyondChatsArticles" /\ c.pc = "finally"
            /\ Len(c.urls) = 2 /\ c.urls[1] # c.urls[2]
            /\ c.faults = <<"goto">>
            /\ TextLen(c.content) = MinScraped
            /\ c.ret = [kind |-> "list", val |-> <<[originalUrl |-> c.urls[2]]>>]

----------------------------------------------------------------------------
(* Properties of the content strategies *)

\* the selectors whose container gave more than `least` characters
Yielding(c, least) ==
    {k \in 1..Len(c.containers) :
        c.containers[k] # Null /\ c.containers[k][1] > least}

Min(S) == CHOOSE k \in S : \A j \in S : k <= j

\* C27: once the strategies are through, the content is the output of the
\* first selector, in list order, whose container gave more than 200
\* characters, if there is one; and the content is the paragraphs of the
\* whole document if and only if no selector gave at least 200 characters.
C27_SelectorPriority ==
    \A p \in workers :
        LET c == loc[p].call
        IN  (c.fn = "extractArticleContent" /\ c.pc = "parse" /\ c.containers # <<>>) =>
              /\ Yielding(c, Substantial) # {} =>
                   /\ c.from = <<"selector", Min(Yielding(c, Substantial))>>
                   /\ c.raw = TextOfLength(c.containers[c.from[2]][1])
              /\ c.from = <<"paragraphs", 0>> <=> Yielding(c, Substantial - 1) = {}

----------------------------------------------------------------------------
(* Properties of the normalisation *)

\* no whitespace at either end, no control character (line breaks are
\* control characters), no two whitespace characters side by side, no three
\* line breaks in a row
NormalForm(t) ==
    /\ t # <<>> => ~IsSpace(t[1]) /\ ~IsSpace(t[Len(t)])
    /\ \A k \in 1..Len(t) :
         /\ t[k].c \notin {"c", "\n"}
         /\ IsSpace(t[k]) => t[k].n = 1
         /\ (IsSpace(t[k]) /\ k < Len(t)) => ~IsSpace(t[k + 1])

\* C28: the text cleanContent returns is in normal form, and cleanContent
\* applied to it returns it unchanged.
C28_CleanIdempotent ==
    \A p \in workers :
        LET c == loc[p].call
        IN  c.pc = "cleaned" =>
              /\ NormalForm(c.content)
              /\ cleanContent(c.content) = c.content

----------------------------------------------------------------------------
(* Progress of repeated batches *)

\* C29: with the batch endpoint invoked again and again, every article
\* whose stages succeed is eventually enhanced, whatever the number of
\* articles that fail on every attempt.
C29_EventuallyEnhanced ==
    <>(\A k \in 1..Len(store) :
          store[k].id \notin env.poison => store[k].isUpdated)

----------------------------------------------------------------------------
(* Errors of single-article enhancement *)

\* C30: a single-article enhancement of an unknown id answers 404 with no
\* search, extraction or rewrite started; a stage that fails (the search,
\* the configuration check, the backend, the empty-content check, the
\* store) hands its error to the error handler, which answers with the
\* error's status, and the store is as the request found it.
C30_ByIdErrors ==
    \A p \in workers :
        LET l == loc[p]
        IN  (l.kind = "byId" /\ l.pc \in {"catch", "done"}) =>
              /\ l.pc = "done" =>
                   /\ l.error = "none" <=> l.response.status = 200
                   /\ l.error # "none" => l.response.status = StatusOf(l.error)
              /\ l.error = "notfound" =>
                   /\ l.response.status = 404
                   /\ l.articles = <<>> /\ l.attempted = <<>>
                   /\ l.log = <<>> /\ l.llm = <<>>
              /\ (l.pc = "catch" \/ l.error # "none") =>
                   /\ store = l.before
                   /\ l.wrote = {}
                   /\ l.response.articles = <<>>
                   /\ l.stage \in {"search", "rewrite"} => "update" \notin Range(l.log)

\* no backend is configured: the request for a stored article searched,
\* failed in rewriteArticle and was answered 500; the article is untouched
C30_Witness ==
    \E p \in workers :
        LET l == loc[p]
        IN  /\ l.kind = "byId" /\ l.pc = "done"
            /\ l.error = "config" /\ l.stage = "rewrite"
            /\ l.response.status = 500
            /\ l.log = <<"search", "rewrite">>
            /\ Row(store, Cur(l).id) = NewArticle(Cur(l).id, Cur(l).originalUrl)

====
